---- MODULE Spec2Model ----
(***************************************************************************)
(* Animation playback and skeleton composition of exengine's model.c.      *)
(*                                                                         *)
(* Time is kept exactly, as a whole number of quanta of 1/TimeDen second,  *)
(* so that current_time * rate is the rational (current_time * rate) /     *)
(* TimeDen; the float -> uint32_t conversion of line 49 is the truncation  *)
(* of that rational and the blend weight of line 77 its fractional part.   *)
(* Float rounding is not modelled, and the frame counters stay far below   *)
(* 2^32, so uint32_t arithmetic is plain integer arithmetic here.          *)
(*                                                                         *)
(* A 4x4 matrix is a word over generator symbols and mat4x4_mul is         *)
(* concatenation (the free monoid): an equation between products that      *)
(* holds here holds for all matrices.                                      *)
(*                                                                         *)
(* The mesh list walked at lines 27-40 carries no animation state and is   *)
(* left out.                                                               *)
(***************************************************************************)
EXTENDS Integers, Sequences, FiniteSets, TLC

\* ------------------------------------------------------------------ bounds
MaxFirst == 2
MaxLast == 3
MaxDelta == 3
MaxBones == 3

\* quanta per second: halves and thirds of a second are both whole quanta
TimeDen == 2 * 3
\* 1/3 second, the delta_time of the looping example
ThirdSecond == TimeDen \div 3

\* frames per second of the generated clips
Rates == {1, 30}

NULL == -1

\* ------------------------------------------------------- load-time input
\* anim_t: first, last, rate, loop
AnimT(firsts, lasts) ==
  { [first |-> f, last |-> l, rate |-> r, loop |-> lp] :
      f \in firsts, l \in lasts, r \in Rates, lp \in BOOLEAN }

ExampleClip == [first |-> 0, last |-> 10, rate |-> 30, loop |-> TRUE]

Clips ==
  { c \in AnimT(0..MaxFirst, 0..MaxLast) : c.first <= c.last } \cup {ExampleClip}

\* what the memory one element past the clip array may hold
PastEndClips ==
  { [first |-> 1, last |-> 0, rate |-> 1, loop |-> FALSE],
    [first |-> 0, last |-> 1, rate |-> 30, loop |-> TRUE] }

\* bone_t.parent for each bone: negative = root
Hierarchies(maxn) ==
  UNION { [0..(n-1) -> (-1)..(n-1)] : n \in 0..maxn }

WellOrdered(b) == \A i \in DOMAIN b : b[i] < i

VARIABLES
  anims,          \* m->anims, indexed 0..anims_len-1
  past_end,       \* the memory at &m->anims[anims_len]
  bones,          \* m->bones: parent index of each bone, 0..bones_len-1
  current_anim,   \* NULL, or the index of the clip m->current_anim points at
  current_time,   \* m->current_time, in quanta
  current_frame,  \* m->current_frame
  pose,           \* m->pose
  skeleton,       \* m->skeleton
  fault,          \* the process has crashed
  last_op,        \* the operation that produced this state
  branch,         \* which path the last model_update took
  mix_a, mix_b,   \* the frame indices last handed to mix_pose (NULL: none)
  composed,       \* the last operation called model_update_matrices
  stale_read,     \* that pass read a transform[] entry it had not written
  arg,            \* the index the last model_set_anim was called with
  calls,          \* model_update(1/3) calls in a row since model_set_anim
  wrapped,        \* a loop wrap happened since model_set_anim
  unit_steps      \* every delta since model_set_anim advanced <= 1 frame

vars == << anims, past_end, bones, current_anim, current_time, current_frame,
           pose, skeleton, fault, last_op, branch, mix_a, mix_b, composed,
           stale_read, arg, calls, wrapped, unit_steps >>

anims_len == Cardinality(DOMAIN anims)
bones_len == Cardinality(DOMAIN bones)
Bones == DOMAIN bones

\* m->frames holds one frame per index up to the last frame any clip names
Max(S) == CHOOSE x \in S : \A y \in S : y <= x
frames_len == 1 + Max({ anims[k].last : k \in DOMAIN anims })

\* ------------------------------------------------------------ arithmetic
MIN(a, b) == IF a < b THEN a ELSE b
MAX(a, b) == IF a > b THEN a ELSE b

\* (uint32_t)(m->current_time * anim->rate)
Trunc(t, rate) == (t * rate) \div TimeDen

\* position - floor(position), in TimeDen-ths
Weight(t, rate) == (t * rate) % TimeDen

\* uint32_t len = anim->last + anim->first
FrameSpan(a) == a.last + a.first

\* the clip m->current_anim points at; index anims_len is one past the array
AnimAt(idx) == IF idx \in DOMAIN anims THEN anims[idx] ELSE past_end

\* ------------------------------------------------------------- key frames
\* m->frames[f][i], the loaded key frame data (values in whole units)
KeyFrame(f, i) ==
  [ translate |-> 10 * f + i,
    rotate    |-> [angle |-> 2 * f + i, mag |-> 1 + (f % 2)],
    scale     |-> 1 + f ]

\* what a read through a frame pointer outside m->frames yields
GarbageEntry ==
  [ translate |-> -7, rotate |-> [angle |-> -7, mag |-> 3], scale |-> -7 ]

FrameAt(f) ==
  [ i \in Bones |-> IF f \in 0..(frames_len - 1) THEN KeyFrame(f, i)
                    ELSE GarbageEntry ]

\* the pose buffer as loaded: the bind pose (values in TimeDen-ths)
BindPose ==
  [ i \in Bones |->
      [ translate |-> 0, rotate |-> [angle |-> 0, mag |-> TimeDen],
        scale |-> TimeDen ] ]

\* quat_norm: the result has unit length
quat_norm(q) == [q EXCEPT !.mag = TimeDen]

\* vec3_lerp(t, a, b, w) = a + w * (b - a), w in TimeDen-ths
vec3_lerp(a, b, w) == a * TimeDen + (b - a) * w

\* quat_slerp about one axis: the angle and the length interpolate
quat_slerp(a, b, w) ==
  [ angle |-> vec3_lerp(a.angle, b.angle, w),
    mag   |-> vec3_lerp(a.mag, b.mag, w) ]

\* mix_pose(m, a, b, weight): the pose buffer it writes
mix_pose(a, b, weight) ==
  LET w == MIN(MAX(weight, 0), TimeDen)
  IN [ i \in Bones |->
         [ translate |-> vec3_lerp(a[i].translate, b[i].translate, w),
           rotate    |-> quat_norm(quat_slerp(a[i].rotate, b[i].rotate, w)),
           scale     |-> vec3_lerp(a[i].scale, b[i].scale, w) ] ]

\* model_set_pose(m, frame): the pose buffer it writes
set_pose(frame) ==
  [ i \in Bones |->
      [ translate |-> frame[i].translate * TimeDen,
        rotate    |-> quat_norm([ angle |-> frame[i].rotate.angle * TimeDen,
                                  mag   |-> frame[i].rotate.mag * TimeDen ]),
        scale     |-> frame[i].scale * TimeDen ] ]

\* ---------------------------------------------------------------- matrices
mat4x4_identity == << >>
mat4x4_mul(a, b) == a \o b

\* calc_bone_matrix: identity * scale * rotate * translate
calc_bone_matrix(p) ==
  mat4x4_mul(
    mat4x4_mul(
      mat4x4_mul(mat4x4_identity, << [k |-> "S", v |-> p.scale] >>),
      << [k |-> "R", v |-> p.rotate.angle] >>),
    << [k |-> "T", v |-> p.translate] >>)

\* m->inverse_base[i]
inverse_base(i) == << [k |-> "IB", v |-> i] >>

\* what an uninitialised transform[] entry may hold
JunkMats == { << >>, << [k |-> "G", v |-> 0] >> }

\* the state of one pass of model_update_matrices before bone 0
PassInit(skel) ==
  [ transform |-> [i \in Bones |-> << >>], written |-> {},
    skeleton |-> skel, stale |-> FALSE ]

\* BoneStep with the operands of line 169 swapped
BoneStepSwapped(i, st, p, junk) ==
  LET mat    == calc_bone_matrix(p[i])
      parent == bones[i]
      read   == IF parent \in st.written THEN st.transform[parent]
                ELSE junk[parent]
      ti     == IF parent >= 0 THEN mat4x4_mul(read, mat) ELSE mat
      result == mat4x4_mul(inverse_base(i), ti)
  IN [ transform |-> [st.transform EXCEPT ![i] = ti],
       written   |-> st.written \cup {i},
       skeleton  |-> [st.skeleton EXCEPT ![i] = result],
       stale     |-> st.stale \/ (parent >= 0 /\ parent \notin st.written) ]

\* one iteration of the loop of model_update_matrices, for bone i;
\* junk[k] is what transform[k] holds while it is not yet written
BoneStep(i, st, p, junk) ==
  LET mat    == calc_bone_matrix(p[i])
      parent == bones[i]
      read   == IF parent \in st.written THEN st.transform[parent]
                ELSE junk[parent]
      ti     == IF parent >= 0 THEN mat4x4_mul(mat, read) ELSE mat
      result == IF parent >= 0 THEN mat4x4_mul(inverse_base(i), ti)
                ELSE mat4x4_mul(inverse_base(i), mat)
  IN [ transform |-> [st.transform EXCEPT ![i] = ti],
       written   |-> st.written \cup {i},
       skeleton  |-> [st.skeleton EXCEPT ![i] = result],
       stale     |-> st.stale \/ (parent >= 0 /\ parent \notin st.written) ]

RECURSIVE BonesFrom(_, _, _, _)
\* for (int i = ...; i < m->bones_len; i++)
BonesFrom(i, st, p, junk) ==
  IF i >= bones_len THEN st
  ELSE CHOOSE r \in { BonesFrom(i + 1, s, p, junk) :
                        s \in { BoneStep(i, st, p, junk) } } : TRUE

\* model_update_matrices(m) on pose buffer p: the skeleton written, and
\* whether a transform[] entry was read before the pass wrote it
update_matrices(p, skel, junk) == BonesFrom(0, PassInit(skel), p, junk)

\* ----------------------------------------------------- playback arithmetic
\* Holds with the negation of anim->loop dropped
HoldsLooping(a, t) == Trunc(t, a.rate) > FrameSpan(a) /\ a.loop

\* the non-looping early return of line 53
Holds(a, t) == Trunc(t, a.rate) > FrameSpan(a) /\ ~a.loop

\* m->current_frame = anim->first + current_frame (line 58)
RawFrame(a, t) == a.first + Trunc(t, a.rate)

\* m->current_frame >= len (line 62)
PastSpan(a, t) == RawFrame(a, t) >= FrameSpan(a)

\* NextTime without the reset of line 65
NextTimeNoReset(a, t, dt) ==
  IF PastSpan(a, t) /\ a.loop THEN t + dt - (FrameSpan(a) * TimeDen) \div a.rate
  ELSE t + dt

\* NextTime without the increment of line 57
NextTimeFrozen(a, t, dt) == IF PastSpan(a, t) /\ a.loop THEN 0 ELSE t

\* m->current_time after lines 57 and 62-66
NextTime(a, t, dt) == IF PastSpan(a, t) /\ a.loop THEN 0 ELSE t + dt

\* m->current_frame after lines 58 and 62-69
NextFrame(a, t, dt) ==
  IF PastSpan(a, t)
  THEN IF a.loop THEN a.first + Trunc(NextTime(a, t, dt), a.rate)
       ELSE a.last
  ELSE RawFrame(a, t)

\* next_frame after lines 59 and 72-74
NextOf(a, t) ==
  IF RawFrame(a, t) + 1 >= FrameSpan(a) THEN a.first ELSE RawFrame(a, t) + 1

Branch(a, t) ==
  IF Holds(a, t) THEN "hold"
  ELSE IF ~PastSpan(a, t) THEN "play"
  ELSE IF a.loop THEN "wrap" ELSE "clamp"

\* a frame index whose read at line 77 is outside what was loaded: the
\* frame array of a model without bones is absent
BadRead(f) == bones_len = 0 \/ f \notin 0..(frames_len - 1)

loaded  == << anims, past_end, bones >>
history == << calls, wrapped, unit_steps >>

Deltas == 0..MaxDelta

\* ------------------------------------------------------------------- Init
\* model_new followed by the load of bones, frames and clips
InitWith(animsets, bonesets) ==
  /\ anims \in animsets
  /\ past_end = CHOOSE c \in PastEndClips : TRUE
  /\ bones \in bonesets
  /\ current_anim = NULL
  /\ current_time = 0
  /\ current_frame = 0
  /\ pose = BindPose
  /\ skeleton = [i \in DOMAIN bones |-> mat4x4_identity]
  /\ fault = FALSE
  /\ last_op = "model_new"
  /\ branch = "none"
  /\ mix_a = NULL
  /\ mix_b = NULL
  /\ composed = FALSE
  /\ stale_read = FALSE
  /\ arg = NULL
  /\ calls = 0
  /\ wrapped = FALSE
  /\ unit_steps = TRUE

\* ---------------------------------------------------------------- actions
\* if (index > m->anims_len)
IndexRejected(index) == index > anims_len

\* StartFrame resetting to frame 0 instead of the clip's first frame
StartFrameZero(a) == 0

\* m->current_frame = m->current_anim->first
StartFrame(a) == a.first

model_set_anim(index) ==
  /\ ~fault
  /\ IF IndexRejected(index)
     THEN /\ current_anim' = NULL
          /\ UNCHANGED << current_time, current_frame, past_end >>
     ELSE /\ current_anim' = index
          /\ current_time' = 0
          /\ IF index \in DOMAIN anims
             THEN past_end' = past_end
             ELSE past_end' \in PastEndClips
          /\ current_frame' = StartFrame(IF index \in DOMAIN anims
                                         THEN anims[index] ELSE past_end')
  /\ last_op' = "model_set_anim"
  /\ arg' = index
  /\ branch' = "none"
  /\ mix_a' = NULL
  /\ mix_b' = NULL
  /\ composed' = FALSE
  /\ stale_read' = FALSE
  /\ UNCHANGED << anims, bones, pose, skeleton, fault >>

\* the transform[] entries a pass reads before writing them
StaleSlots == { bones[i] : i \in { j \in Bones : bones[j] >= j } }

\* lines 76-79: the two frame reads, mix_pose and model_update_matrices;
\* a read outside the frame array either crashes or yields garbage
Evaluate(fa, fb, weight) ==
  /\ mix_a' = fa
  /\ mix_b' = fb
  /\ \E crash \in IF BadRead(fa) \/ BadRead(fb) THEN BOOLEAN ELSE {FALSE},
        junk \in [StaleSlots -> JunkMats] :
       IF crash
       THEN /\ fault' = TRUE
            /\ composed' = FALSE
            /\ stale_read' = FALSE
            /\ UNCHANGED << pose, skeleton >>
       ELSE \E p \in { mix_pose(FrameAt(fa), FrameAt(fb), weight) } :
            \E r \in { update_matrices(p, skeleton, junk) } :
               /\ pose' = p
               /\ skeleton' = r.skeleton
               /\ stale_read' = r.stale
               /\ composed' = TRUE
               /\ fault' = FALSE

model_update(dt) ==
  /\ ~fault
  /\ last_op' = "model_update"
  /\ arg' = NULL
  /\ UNCHANGED << loaded, current_anim >>
  /\ IF current_anim = NULL
     THEN /\ branch' = "idle"
          /\ mix_a' = NULL
          /\ mix_b' = NULL
          /\ composed' = FALSE
          /\ stale_read' = FALSE
          /\ UNCHANGED << current_time, current_frame, pose, skeleton, fault >>
     ELSE LET a == AnimAt(current_anim)
              t == current_time
          IN /\ branch' = Branch(a, t)
             /\ IF Holds(a, t)
                THEN /\ mix_a' = NULL
                     /\ mix_b' = NULL
                     /\ composed' = FALSE
                     /\ stale_read' = FALSE
                     /\ UNCHANGED << current_time, current_frame, pose,
                                     skeleton, fault >>
                ELSE /\ current_time' = NextTime(a, t, dt)
                     /\ current_frame' = NextFrame(a, t, dt)
                     /\ Evaluate(NextFrame(a, t, dt), NextOf(a, t),
                                 Weight(t, a.rate))

model_update_matrices ==
  /\ ~fault
  /\ \E junk \in [StaleSlots -> JunkMats] :
       \E r \in { update_matrices(pose, skeleton, junk) } :
          /\ skeleton' = r.skeleton
          /\ stale_read' = r.stale
  /\ composed' = TRUE
  /\ last_op' = "model_update_matrices"
  /\ arg' = NULL
  /\ branch' = "none"
  /\ mix_a' = NULL
  /\ mix_b' = NULL
  /\ UNCHANGED << loaded, current_anim, current_time, current_frame, pose,
                  fault >>

model_set_pose(f) ==
  /\ ~fault
  /\ bones_len > 0
  /\ pose' = set_pose(FrameAt(f))
  /\ last_op' = "model_set_pose"
  /\ arg' = NULL
  /\ branch' = "none"
  /\ mix_a' = NULL
  /\ mix_b' = NULL
  /\ composed' = FALSE
  /\ stale_read' = FALSE
  /\ UNCHANGED << loaded, current_anim, current_time, current_frame,
                  skeleton, fault >>

\* ---------------------------------------------------------- specification
\* a root bone and its child; and a model loaded without a skeleton
PlaybackSkeletons == { << >>, [i \in 0..1 |-> i - 1] }

\* one clip, or that clip followed by the example clip
ClipArrays ==
  { [k \in 0..0 |-> c] : c \in Clips } \cup
  { [k \in 0..1 |-> IF k = 0 THEN c ELSE ExampleClip] : c \in Clips }

Init == InitWith(ClipArrays, PlaybackSkeletons)

SetAnim == \E index \in 0..(anims_len + 1) :
             model_set_anim(index) /\ UNCHANGED history

Update == \E dt \in Deltas : model_update(dt) /\ UNCHANGED history

Next == SetAnim \/ Update

Spec == Init /\ [][Next]_vars

\* ---- the pose set directly (model_set_pose) and composed, over every
\* ---- hierarchy of up to MaxBones bones, well ordered or not
SkelClip == [first |-> 0, last |-> 1, rate |-> 30, loop |-> TRUE]

SkelInit == InitWith({ [k \in 0..0 |-> SkelClip] }, Hierarchies(MaxBones))

UpdateMatrices == model_update_matrices /\ UNCHANGED history

SetPose == \E f \in 0..(frames_len - 1) :
             model_set_pose(f) /\ UNCHANGED history

SkelNext == UpdateMatrices \/ SetPose

SkelSpec == SkelInit /\ [][SkelNext]_vars

\* ---- playback with the history of the looping example: the run of
\* ---- model_update(1/3) calls since model_set_anim, and whether it wrapped
MaxCalls == 10

SetAnimCounted ==
  \E index \in 0..(anims_len + 1) :
    /\ model_set_anim(index)
    /\ calls' = 0
    /\ wrapped' = FALSE
    /\ UNCHANGED unit_steps

UpdateCounted ==
  \E dt \in Deltas :
    /\ model_update(dt)
    /\ calls' = IF dt = ThirdSecond /\ calls # NULL
                THEN MIN(calls + 1, MaxCalls) ELSE NULL
    /\ wrapped' = (wrapped \/ branch' = "wrap")
    /\ UNCHANGED unit_steps

LoopNext == SetAnimCounted \/ UpdateCounted

LoopSpec == Init /\ [][LoopNext]_vars

\* ---- one clip started once and then ticked with delta_time > 0 for ever;
\* ---- unit_steps: no tick so far advanced playback by more than one frame
StartOnce ==
  /\ last_op = "model_new"
  /\ \E index \in 0..(anims_len + 1) : model_set_anim(index)
  /\ unit_steps' = TRUE
  /\ UNCHANGED << calls, wrapped >>

Advance ==
  /\ last_op # "model_new"
  /\ \E dt \in 1..MaxDelta :
       /\ model_update(dt)
       /\ unit_steps' = (unit_steps /\
                         (current_anim # NULL =>
                            dt * AnimAt(current_anim).rate <= TimeDen))
  /\ UNCHANGED << calls, wrapped >>

PlayNext == StartOnce \/ Advance

PlaySpec == Init /\ [][PlayNext]_vars /\ WF_vars(Advance)

\* ------------------------------------------------------------------ claims
Active  == current_anim # NULL
Valid   == current_anim \in DOMAIN anims
Clip    == AnimAt(current_anim)
Updated == last_op = "model_update"
InClip(f) == Clip.first <= f /\ f <= Clip.last
\* the model was loaded with a skeleton (bones, frames, pose buffer)
Skinned == bones_len > 0

\* elapsed_frame_pos = current_time * rate strictly above frame_span
PosPastSpan == current_time * Clip.rate > FrameSpan(Clip) * TimeDen

\* C1: at the end of a model_update of a skinned model with a clip of the
\* array active, first_frame <= current_frame <= last_frame of that clip.
C1_FrameInClip == (Updated /\ Valid /\ Skinned) => InClip(current_frame)

\* C2: model_set_anim with any index >= anims_len leaves the model Idle, and
\* a model_update right after it changes neither current_time, current_frame,
\* the pose buffer nor the skeleton matrices.
C2_OutOfRangeIdle ==
  [][ /\ (last_op' = "model_set_anim" /\ arg' >= anims_len)
           => current_anim' = NULL
      /\ (last_op = "model_set_anim" /\ arg >= anims_len
            /\ last_op' = "model_update")
           => UNCHANGED << current_time, current_frame, pose, skeleton >>
    ]_vars

\* C3: non-looping clip of a skinned model: once current_frame equals
\* last_frame after a model_update, it still equals last_frame after the
\* next model_update.
C3_StaysAtLast ==
  [][ (Updated /\ Valid /\ Skinned /\ ~Clip.loop /\ current_frame = Clip.last
         /\ last_op' = "model_update")
        => current_frame' = Clip.last ]_vars

\* C4: looping clip: a model_update entered with current_time past
\* frame_span / rate wraps current_frame to first_frame (inside the clip) and
\* resets current_time to 0; current_frame never exceeds frame_span; and for
\* the clip {0, 10, 30, loop} every run of model_update(1/3) calls from
\* current_time = 0 keeps current_frame in [0, 10] and has wrapped by the
\* tenth call.
C4_LoopWraps ==
  [][ (last_op' = "model_update" /\ Valid /\ Clip.loop) =>
        /\ PosPastSpan =>
             /\ branch' = "wrap"
             /\ current_time' = 0
             /\ current_frame' = Clip.first
             /\ InClip(current_frame')
        /\ current_frame' <= FrameSpan(Clip)
        /\ (Clip = ExampleClip /\ calls' # NULL) =>
             /\ InClip(current_frame')
             /\ calls' = MaxCalls => wrapped'
    ]_vars

C4_Witness ==
  /\ Updated /\ Valid /\ Clip = ExampleClip
  /\ calls = MaxCalls /\ wrapped /\ current_time = 0

\* C5 as stated: non-looping clip of a skinned model: a model_update
\* entered with current_time * rate strictly above frame_span changes
\* neither current_time, current_frame, the pose buffer nor the skeleton
\* matrices.
C5_HoldsPastSpan ==
  [][ (last_op' = "model_update" /\ Valid /\ Skinned /\ ~Clip.loop
         /\ PosPastSpan)
        => UNCHANGED << current_time, current_frame, pose, skeleton >> ]_vars

\* C5 amended: the same, for a model_update entered with the truncated
\* position trunc(current_time * rate) strictly above frame_span.
C5_HoldsPastTruncatedSpan ==
  [][ (last_op' = "model_update" /\ Active /\ ~Clip.loop
         /\ Trunc(current_time, Clip.rate) > FrameSpan(Clip))
        => /\ UNCHANGED << current_time, current_frame, pose, skeleton >>
           /\ branch' = "hold" /\ ~composed' ]_vars

C5_Witness ==
  /\ Updated /\ Valid /\ ~Clip.loop /\ branch = "hold"
  /\ Trunc(current_time, Clip.rate) > FrameSpan(Clip)
  /\ bones_len > 0 /\ pose # BindPose

\* C6: after model_set_anim with a valid index that clip is active,
\* current_time = 0 and current_frame = the clip's first_frame, whatever the
\* playback state was before.
C6_SetAnimResets ==
  (last_op = "model_set_anim" /\ arg \in DOMAIN anims) =>
     /\ current_anim = arg
     /\ current_time = 0
     /\ current_frame = anims[arg].first

C6_Witness ==
  /\ last_op = "model_set_anim" /\ arg \in DOMAIN anims
  /\ anims[arg].first > 0 /\ current_frame = anims[arg].first
  /\ current_time = 0 /\ pose # BindPose

\* C7: with no bones and a clip active, model_update does not fault, does
\* not call model_update_matrices and reads no frame.
C7_NoBonesSkipped ==
  (Updated /\ Active /\ bones_len = 0) =>
     (~fault /\ ~composed /\ mix_a = NULL /\ mix_b = NULL)

\* inverse_base[i] . local(i) . local(parent(i)) ... local(root)
RECURSIVE Chain(_, _)
Chain(i, p) ==
  mat4x4_mul(calc_bone_matrix(p[i]),
             IF bones[i] < 0 THEN mat4x4_identity ELSE Chain(bones[i], p))

\* C8: with every parent index negative or smaller than the bone's own, one
\* model_update_matrices sets skeleton[i] = inverse_base[i] . local(i) .
\* local(parent(i)) ... local(root) for every bone, reads no transform it
\* has not written in this pass, and leaves the pose buffer unchanged.
C8_SkeletonIsChain ==
  [][ (last_op' = "model_update_matrices" /\ WellOrdered(bones)) =>
        /\ \A i \in Bones :
             skeleton'[i] = mat4x4_mul(inverse_base(i), Chain(i, pose))
        /\ ~stale_read'
        /\ pose' = pose ]_vars

C8_Witness ==
  /\ last_op = "model_update_matrices" /\ WellOrdered(bones)
  /\ pose # BindPose
  /\ \E i \in Bones : bones[i] >= 0 /\ bones[bones[i]] >= 0
  /\ \A i \in Bones :
       skeleton[i] = mat4x4_mul(inverse_base(i), Chain(i, pose))

\* C9: both frame indices a model_update of a skinned model hands to
\* mix_pose lie in [first_frame, last_frame] of the active clip.
C9_MixFramesInClip ==
  (Updated /\ Valid /\ Skinned /\ mix_a # NULL)
    => (InClip(mix_a) /\ InClip(mix_b))

\* the hold condition of a non-looping clip
Held == Active /\ Holds(Clip, current_time)

====
